---- MODULE Spec2Model ----
(***************************************************************************)
(* Model of the live conversation session of LiveInterface.tsx: the        *)
(* start/stop button, the streaming connection's callbacks (onopen,        *)
(* onmessage, onclose, onerror), the microphone capture callback and the   *)
(* playback scheduler (nextStartTimeRef, sourcesRef).                      *)
(*                                                                         *)
(* Time is counted in ticks.  Every startSession creates its own output    *)
(* AudioContext, whose currentTime starts at 0 when it is created: the     *)
(* clock of session c is  now - sessions[c].t0.                            *)
(***************************************************************************)
EXTENDS Integers, Sequences, FiniteSets, TLC

VARIABLES
  isActive,         \* useState(false), line 44
  rendered,         \* the isActive value of the last committed render (line 131)
  sessionRef,       \* sessionRef.current: 0 is null, else a session number
  audioContextRef,  \* audioContextRef.current: 0 is null, else a session number
  nextStartTime,    \* nextStartTimeRef.current
  sources,          \* sourcesRef.current: a set of handle numbers
  sessions,         \* one record per startSession call
  handles,          \* one record per AudioBufferSourceNode that was started
  pending,          \* onmessage calls suspended at the await of line 82, oldest first
  now,              \* wall clock
  arrivals,         \* history: number of audio messages whose decode was begun
  intrSinceLast,    \* history: an interruption ran since the last started segment's message arrived
  last,             \* history: the handler that ran last
  codec,            \* a run of encode (line 5) and decode (line 14) on one byte buffer
  pcm,              \* a run of the two sample conversions (lines 37 and 71) on one sample
  app,              \* App: the sources list and the file uploads in progress
  notes,            \* NotesInterface: notes, folders, the open note
  studio,           \* StudioHub: active tool, loading, result, requests in flight
  player,           \* AudioOverview: playback state, refs, nodes and the audio clock
  chat              \* ChatInterface: messages, isLoading, the request in flight

liveVars == <<isActive, sessionRef, audioContextRef, nextStartTime, sources,
              sessions, handles, pending>>

\* The state of the pure conversions, which no handler of the session reads
nonLive == <<codec, pcm, app, notes, studio, player, chat>>

\* The state of the live session component and its history
sessionVars == <<isActive, rendered, sessionRef, audioContextRef, nextStartTime, sources,
                 sessions, handles, pending, now, arrivals, intrSinceLast, last>>

vars == <<isActive, rendered, sessionRef, audioContextRef, nextStartTime, sources,
          sessions, handles, pending, now, arrivals, intrSinceLast, last, codec, pcm,
          app, notes, studio, player, chat>>

-----------------------------------------------------------------------------
(* Bounds *)

MaxSessions == 2
MaxTime == 2
MaxHandles == 2
MaxPending == 2
MaxFrames == 2

\* segment durations (buffer.duration), in ticks
Durations == {1, 2}

-----------------------------------------------------------------------------
(* Helpers *)

Max(a, b) == IF a >= b THEN a ELSE b

SessionIds == 1..Len(sessions)
HandleIds == 1..Len(handles)

\* outputAudioContext.currentTime of session c
CtxClock(c) == now - sessions[c].t0

\* A node started with a time in the past begins at once (AudioBufferSourceNode.start)
ActualStart(h) == Max(handles[h].startAt, handles[h].began)
ActualEnd(h) == ActualStart(h) + handles[h].dur

\* The node still produces (or is still going to produce) sound
Audible(h) ==
  /\ handles[h].state = "playing"
  /\ CtxClock(handles[h].sess) < ActualEnd(h)

NewSession ==
  [t0 |-> now, mic |-> "pending", status |-> "none", resolved |-> FALSE,
   capturing |-> FALSE, closeCalls |-> 0, errored |-> FALSE,
   frames |-> 0, waiting |-> <<>>, sent |-> <<>>, lateSent |-> FALSE,
   stale |-> FALSE]

\* History: stopSession, a close callback or an error callback has run; the
\* calls of startSession made so far were made before it
Ended(ss) == [c \in DOMAIN ss |-> [ss[c] EXCEPT !.stale = TRUE]]

\* No conversion has been run
IdleCodec == [pc |-> "idle", bytes |-> <<>>, text |-> <<>>, out |-> <<>>]
IdlePcm == [pc |-> "idle", int |-> 0, flt |-> [num |-> 0, den |-> 1], back |-> 0]

\* The component as mounted: lines 44-49
InitLive ==
  /\ isActive = FALSE
  /\ rendered = FALSE
  /\ sessionRef = 0
  /\ audioContextRef = 0
  /\ nextStartTime = 0
  /\ sources = {}
  /\ sessions = <<>>
  /\ handles = <<>>
  /\ pending = <<>>
  /\ now = 0
  /\ arrivals = 0
  /\ intrSinceLast = FALSE
  /\ last = [op |-> "init", sess |-> 0, again |-> FALSE, changed |-> FALSE,
             wasActive |-> FALSE]

\* activeFolderId 'all' and 'none'; folder and note ids are positive
AllNotes == -1
Uncategorized == 0

\* folderId undefined
NoFolder == 0

\* activeNote null
NoNote == [id |-> 0, folderId |-> NoFolder, rev |-> 0, content |-> FALSE]

\* localStorage without the items 'gemini-notebook-notes' and
\* 'gemini-notebook-folders': LiveInterface.tsx lines 176-177 read null
NoNotesSaved == [has |-> FALSE, notes |-> <<>>, folders |-> <<>>]

\* NotesInterface as constructed on a first visit, its effects not yet run:
\* LiveInterface.tsx lines 160-166.  summarizing is the activeNote held by the
\* handleSummarize that is suspended at line 274; saved is localStorage.
IdleNotes == [notes |-> <<>>, folders |-> <<>>, activeNote |-> NoNote,
              activeFolderId |-> AllNotes, nextId |-> 1,
              isSummarizing |-> FALSE, summarizing |-> NoNote,
              saved |-> NoNotesSaved, mounted |-> FALSE]
\* StudioHub as mounted: src/unnamed/part_000 lines 325-327.  "none" is null
\* (or a value that is not truthy); a result is named after the tool whose
\* request produced it; requests are the calls suspended at an await.
IdleStudio == [activeTool |-> "none", loading |-> FALSE, result |-> "none",
               requests |-> <<>>]
\* AudioOverview as mounted: src/components/AudioOverview.tsx lines 40-51.
\* Times are counted in units of 0.05 s; node 0 is a null activeSourceNodeRef;
\* timer tells whether the interval of line 95 is running; finished is set
\* when the reset of lines 88-90 follows a natural end of the buffer.
IdlePlayer == [isGenerating |-> FALSE,
               audioBuffer |-> FALSE, isPlaying |-> FALSE, currentTime |-> 0,
               clock |-> 0, startTime |-> 0, offset |-> 0, active |-> 0,
               timer |-> FALSE, nodes |-> <<>>, finished |-> FALSE]
\* ChatInterface as mounted: src/components/ChatInterface.tsx lines 12-18.
\* input tells whether the text box holds text that is not blank; request is the await at which
\* the running handleSend is suspended, "none" when none is running.
IdleChat == [messages |-> <<>>, input |-> FALSE, attachment |-> FALSE,
             isThinkingMode |-> FALSE, useMaps |-> FALSE, isLoading |-> FALSE,
             request |-> "none"]

\* localStorage without the item 'sources': src/App.tsx line 31 reads null
NothingSaved == [has |-> FALSE, list |-> <<>>]

\* App as constructed on a first visit, its effects not yet run: src/App.tsx
\* line 11.  saved is the item 'sources' of localStorage.
IdleApp == [sources |-> <<>>, uploads |-> <<>>, nextId |-> 1, added |-> {},
            removed |-> {}, saved |-> NothingSaved, mounted |-> FALSE]

\* The other components as mounted
InitOther ==
  /\ app = IdleApp
  /\ notes = IdleNotes
  /\ studio = IdleStudio
  /\ player = IdlePlayer
  /\ chat = IdleChat

Init ==
  /\ InitLive
  /\ codec = IdleCodec
  /\ pcm = IdlePcm
  /\ InitOther

\* The record of a handler that ran: its name and, for stopSession and
\* onerror, the session it acted on and whether that session was active
Mark(op, c, again, changed, wasActive) ==
  [op |-> op, sess |-> c, again |-> again, changed |-> changed,
   wasActive |-> wasActive]

Other(op) == Mark(op, 0, FALSE, FALSE, FALSE)

\* A handler no property asks about
Quiet == Other("other")

-----------------------------------------------------------------------------
(* The playback scheduler's steps, lines 81-94 *)

\* Mutant of ClampCursor: the cursor is set to the device clock, the Math.max is lost
ClampCursorNoMax(ns, clock) == clock

\* line 81: the cursor is clamped to the device clock when the message arrives
ClampCursor(ns, clock) == Max(ns, clock)

\* line 92: every node of the active set is stopped
StopAll(hs, S) ==
  [h \in DOMAIN hs |->
     IF h \in S /\ hs[h].state = "playing"
       THEN [hs[h] EXCEPT !.state = "stopped"]
       ELSE hs[h]]

\* line 93: the active set after an interruption
ClearedSources(S) == {}

\* Mutant of ResetCursor: the interruption leaves the cursor where it was
ResetCursorKeep(ns) == ns

\* line 94: the cursor after an interruption
ResetCursor(ns) == 0

\* lines 83-89: the node created for a decoded segment e, started at the cursor
StartedHandle(e) ==
  [sess |-> e.sess, cursor |-> nextStartTime, startAt |-> nextStartTime,
   dur |-> e.dur,
   began |-> CtxClock(e.sess), state |-> "playing", notified |-> FALSE,
   seq |-> e.seq, at |-> e.at, cut |-> e.cut, late |-> e.late,
   afterBad |-> e.afterBad,
   chain |-> ~intrSinceLast]

\* line 87: the cursor after a segment of duration dur was started at the cursor
AdvanceCursor(ns, dur) == ns + dur

\* The continuation that resumes first when several onmessage calls are
\* suspended at line 82: promise reactions run in the order they were queued
NextContinuation == 1

-----------------------------------------------------------------------------
(* startSession, lines 51-107 *)

\* lines 52-58: both audio contexts are created, audioContextRef is set and
\* the microphone is requested; the function has no guard of its own
StartSession ==
  /\ UNCHANGED nonLive
  /\ Len(sessions) < MaxSessions
  /\ sessions' = Append(sessions, NewSession)
  /\ audioContextRef' = Len(sessions) + 1
  /\ last' = Other("start")
  /\ UNCHANGED <<isActive, rendered, sessionRef, nextStartTime, sources, handles,
                 pending, now, arrivals, intrSinceLast>>

\* lines 52-55 when an AudioContext cannot be created: the constructor throws
\* before line 56, startSession ends with the exception and has set nothing
StartSessionNoDevice ==
  /\ UNCHANGED nonLive
  /\ pending = <<>>
  /\ ~rendered
  /\ last' = Mark("nodevice", 0, FALSE, FALSE, isActive)
  /\ UNCHANGED <<isActive, rendered, sessionRef, audioContextRef, nextStartTime,
                 sources, sessions, handles, pending, now, arrivals, intrSinceLast>>

\* Mutant of StopSession: line 112 is lost, the reference is kept after close()
StopSessionKeepsRef ==
  /\ UNCHANGED nonLive
  /\ IF sessionRef # 0
       THEN sessions' = Ended([sessions EXCEPT
              ![sessionRef].closeCalls = @ + 1,
              ![sessionRef].status = IF @ = "open" THEN "closing" ELSE @])
       ELSE sessions' = Ended(sessions)
  /\ isActive' = FALSE
  /\ UNCHANGED <<rendered, sessionRef, audioContextRef, nextStartTime, sources,
                 handles, pending, now, arrivals, intrSinceLast>>
  /\ last' = Mark("stop", sessionRef, last.op = "stop", liveVars' # liveVars,
                  isActive /\ sessionRef # 0 /\ sessions[sessionRef].status = "open")

\* lines 109-115
StopSession ==
  /\ UNCHANGED nonLive
  /\ IF sessionRef # 0
       THEN /\ sessions' = Ended([sessions EXCEPT
                 ![sessionRef].closeCalls = @ + 1,
                 ![sessionRef].status = IF @ = "open" THEN "closing" ELSE @])
            /\ sessionRef' = 0
       ELSE /\ sessions' = Ended(sessions)
            /\ UNCHANGED sessionRef
  /\ isActive' = FALSE
  /\ UNCHANGED <<rendered, audioContextRef, nextStartTime, sources, handles,
                 pending, now, arrivals, intrSinceLast>>
  /\ last' = Mark("stop", sessionRef, last.op = "stop", liveVars' # liveVars,
                  isActive /\ sessionRef # 0 /\ sessions[sessionRef].status = "open")

\* line 131: the button runs the handler chosen by the last committed render
Click ==
  /\ pending = <<>>
  /\ IF rendered THEN StopSession ELSE StartSession

\* React commits the state set by setIsActive in a later render
Render ==
  /\ UNCHANGED nonLive
  /\ pending = <<>>
  /\ rendered # isActive
  /\ rendered' = isActive
  /\ UNCHANGED <<isActive, sessionRef, audioContextRef, nextStartTime, sources,
                 sessions, handles, pending, now, arrivals, intrSinceLast, last>>

\* line 58 resolves: line 60 opens the streaming connection
MicGranted(c) ==
  /\ UNCHANGED nonLive
  /\ pending = <<>>
  /\ sessions[c].mic = "pending"
  /\ sessions' = [sessions EXCEPT ![c].mic = "granted", ![c].status = "connecting"]
  /\ last' = Quiet
  /\ UNCHANGED <<isActive, rendered, sessionRef, audioContextRef, nextStartTime,
                 sources, handles, pending, now, arrivals, intrSinceLast>>

\* Mutant of MicDenied: the rejection is swallowed and line 60 connects anyway
MicDeniedConnects(c) ==
  /\ UNCHANGED nonLive
  /\ pending = <<>>
  /\ sessions[c].mic = "pending"
  /\ sessions' = [sessions EXCEPT ![c].mic = "denied", ![c].status = "connecting"]
  /\ last' = Mark("denied", c, FALSE, TRUE, isActive)
  /\ UNCHANGED <<isActive, rendered, sessionRef, audioContextRef, nextStartTime,
                 sources, handles, pending, now, arrivals, intrSinceLast>>

\* line 58 rejects: startSession ends with the rejection, nothing is undone
MicDenied(c) ==
  /\ UNCHANGED nonLive
  /\ pending = <<>>
  /\ sessions[c].mic = "pending"
  /\ sessions' = [sessions EXCEPT ![c].mic = "denied"]
  /\ last' = Mark("denied", c, FALSE, TRUE, isActive)
  /\ UNCHANGED <<isActive, rendered, sessionRef, audioContextRef, nextStartTime,
                 sources, handles, pending, now, arrivals, intrSinceLast>>

\* lines 63-77; a connection whose error callback ran while it was being
\* opened has failed and does not open
OnOpen(c) ==
  /\ UNCHANGED nonLive
  /\ pending = <<>>
  /\ sessions[c].status = "connecting"
  /\ ~sessions[c].errored
  /\ isActive' = TRUE
  /\ sessions' = [sessions EXCEPT ![c].status = "open", ![c].capturing = TRUE]
  /\ last' = Quiet
  /\ UNCHANGED <<rendered, sessionRef, audioContextRef, nextStartTime, sources,
                 handles, pending, now, arrivals, intrSinceLast>>

\* The session has left active: stopSession closed it, or its close or error
\* callback has run
Left(c) == sessions[c].status \in {"closing", "closed"} \/ sessions[c].errored

\* line 72: the tag of every outbound packet
PcmMimeType == "audio/pcm;rate=16000"

\* lines 72-73: the packet made from the n-th frame of a session; queued says
\* that the connection promise was still pending when line 73 ran
Packet(n, queued) == [n |-> n, mimeType |-> PcmMimeType, queued |-> queued]

\* Mutant of Flush: the queued sends run last in, first out
FlushReversed(w) == [i \in 1..Len(w) |-> w[Len(w) + 1 - i]]

\* line 73 at resolution: the reactions queued on the connection promise run
\* in the order they were queued
Flush(w) == [i \in 1..Len(w) |-> w[i]]

\* line 106: the connection promise resolves, which it does once the
\* connection has opened; the await of line 106 was queued first, the sends
\* queued by line 73 follow in the order they were queued
Resolve(c) ==
  /\ UNCHANGED nonLive
  /\ pending = <<>>
  /\ sessions[c].capturing
  /\ ~sessions[c].resolved
  /\ sessionRef' = c
  /\ sessions' = [sessions EXCEPT
       ![c].resolved = TRUE,
       ![c].sent = @ \o Flush(sessions[c].waiting),
       ![c].lateSent = @ \/ (sessions[c].waiting # <<>> /\ Left(c)),
       ![c].waiting = <<>>]
  /\ last' = Quiet
  /\ UNCHANGED <<isActive, rendered, audioContextRef, nextStartTime, sources,
                 handles, pending, now, arrivals, intrSinceLast>>

RECURSIVE FramesUpTo(_)
FramesUpTo(c) == IF c = 0 THEN 0 ELSE sessions[c].frames + FramesUpTo(c - 1)

\* lines 67-74: one microphone frame
Frame(c) ==
  /\ UNCHANGED nonLive
  /\ pending = <<>>
  /\ sessions[c].capturing
  /\ FramesUpTo(Len(sessions)) < MaxFrames
  /\ LET n == sessions[c].frames + 1 IN
       sessions' = [sessions EXCEPT
         ![c].frames = n,
         ![c].sent = IF sessions[c].resolved THEN Append(@, Packet(n, FALSE)) ELSE @,
         ![c].lateSent = @ \/ (sessions[c].resolved /\ Left(c)),
         ![c].waiting = IF sessions[c].resolved THEN @ ELSE Append(@, Packet(n, TRUE))]
  /\ last' = Quiet
  /\ UNCHANGED <<isActive, rendered, sessionRef, audioContextRef, nextStartTime,
                 sources, handles, pending, now, arrivals, intrSinceLast>>

\* line 97
OnClose(c) ==
  /\ UNCHANGED nonLive
  /\ pending = <<>>
  /\ sessions[c].status \in {"connecting", "open", "closing"}
  /\ isActive' = FALSE
  /\ sessions' = Ended([sessions EXCEPT ![c].status = "closed"])
  /\ last' = Quiet
  /\ UNCHANGED <<rendered, sessionRef, audioContextRef, nextStartTime, sources,
                 handles, pending, now, arrivals, intrSinceLast>>

\* line 98: the error is logged, nothing else
OnError(c) ==
  /\ UNCHANGED nonLive
  /\ pending = <<>>
  /\ sessions[c].status \in {"connecting", "open", "closing"}
  /\ ~sessions[c].errored
  /\ sessions' = Ended([sessions EXCEPT ![c].errored = TRUE])
  /\ last' = Mark("error", c, FALSE, TRUE, isActive /\ sessions[c].status = "open")
  /\ UNCHANGED <<isActive, rendered, sessionRef, audioContextRef, nextStartTime,
                 sources, handles, pending, now, arrivals, intrSinceLast>>

-----------------------------------------------------------------------------
(* onmessage, lines 78-96 *)

\* History of a segment: cut says that an interruption was processed after
\* its message arrived, late that the message arrived after its session had
\* left active, afterBad that the message before it did not decode
MarkCut(q) == [i \in DOMAIN q |-> [q[i] EXCEPT !.cut = TRUE]]

\* lines 91-95 on the set S of nodes and the node records hs
Interrupted(hs, S) ==
  /\ handles' = MarkCut(StopAll(hs, S))
  /\ sources' = ClearedSources(S)
  /\ nextStartTime' = ResetCursor(nextStartTime)
  /\ intrSinceLast' = TRUE

\* lines 79-82 of a message with an audio payload: the cursor is clamped,
\* decode starts and the handler is suspended at the await.  withIntr says
\* that the same message also carries the interruption flag (line 91).
OnMessageAudio(c, dur, withIntr) ==
  /\ UNCHANGED nonLive
  /\ sessions[c].status \in {"open", "closing"}
  /\ Len(handles) < MaxHandles
  /\ Len(pending) < MaxPending
  /\ nextStartTime' = ClampCursor(nextStartTime, CtxClock(c))
  /\ pending' = Append(pending,
       [sess |-> c, dur |-> dur, intr |-> withIntr, seq |-> arrivals + 1,
        at |-> CtxClock(c), cut |-> FALSE, late |-> Left(c),
        afterBad |-> (last.op = "malformed")])
  /\ arrivals' = arrivals + 1
  /\ last' = Quiet
  /\ UNCHANGED <<isActive, rendered, sessionRef, audioContextRef, sources,
                 sessions, handles, now, intrSinceLast>>

\* Mutant of OnMessageMalformed: the decode failure ends the session
OnMessageMalformedEndsSession(c) ==
  /\ UNCHANGED nonLive
  /\ sessions[c].status \in {"open", "closing"}
  /\ nextStartTime' = ClampCursor(nextStartTime, CtxClock(c))
  /\ isActive' = FALSE
  /\ sessions' = [sessions EXCEPT ![c].status = "closing", ![c].capturing = FALSE]
  /\ last' = Other("malformed")
  /\ UNCHANGED <<rendered, sessionRef, audioContextRef, sources, handles,
                 pending, now, arrivals, intrSinceLast>>

\* lines 79-82 of a message whose payload does not decode: line 81 has run
\* when decode (atob, or the Int16Array view of line 30) throws, and the
\* exception ends the handler before line 91
OnMessageMalformed(c) ==
  /\ UNCHANGED nonLive
  /\ sessions[c].status \in {"open", "closing"}
  /\ nextStartTime' = ClampCursor(nextStartTime, CtxClock(c))
  /\ last' = Other("malformed")
  /\ UNCHANGED <<isActive, rendered, sessionRef, audioContextRef, sources,
                 sessions, handles, pending, now, arrivals, intrSinceLast>>

\* Mutant of OnMessageInterrupt: the interruption also marks the session inactive
OnMessageInterruptCloses(c) ==
  /\ UNCHANGED nonLive
  /\ sessions[c].status \in {"open", "closing"}
  /\ Interrupted(handles, sources)
  /\ pending' = MarkCut(pending)
  /\ isActive' = FALSE
  /\ last' = Other("interrupt")
  /\ UNCHANGED <<rendered, sessionRef, audioContextRef, sessions, now, arrivals>>

\* lines 91-95 of a message that carries the interruption flag and no audio;
\* it runs to its end, also while earlier handlers are suspended at line 82
OnMessageInterrupt(c) ==
  /\ UNCHANGED nonLive
  /\ sessions[c].status \in {"open", "closing"}
  /\ Interrupted(handles, sources)
  /\ pending' = MarkCut(pending)
  /\ last' = Mark("interrupt", c, FALSE, FALSE, FALSE)
  /\ UNCHANGED <<isActive, rendered, sessionRef, audioContextRef, sessions,
                 now, arrivals>>

\* lines 83-95: the await of line 82 resumes
DecodeDone ==
  /\ UNCHANGED nonLive
  /\ pending # <<>>
  /\ Len(handles) < MaxHandles
  /\ LET k == NextContinuation
         e == pending[k]
         h == Len(handles) + 1
         hs == Append(handles, StartedHandle(e))
         rest == [i \in 1..(Len(pending) - 1) |->
                    IF i < k THEN pending[i] ELSE pending[i + 1]]
     IN /\ IF e.intr
             THEN /\ Interrupted(hs, sources \cup {h})
                  /\ pending' = MarkCut(rest)
             ELSE /\ handles' = hs
                  /\ sources' = sources \cup {h}
                  /\ nextStartTime' = AdvanceCursor(nextStartTime, e.dur)
                  /\ intrSinceLast' = e.cut
                  /\ pending' = rest
        /\ last' = Mark(IF e.intr THEN "interrupt" ELSE "started", e.sess,
                        FALSE, FALSE, FALSE)
  /\ UNCHANGED <<isActive, rendered, sessionRef, audioContextRef, sessions,
                 now, arrivals>>

\* Mutant of OnEnded: the ended event empties the active set
OnEndedClearsAll(h) ==
  /\ UNCHANGED nonLive
  /\ pending = <<>>
  /\ ~handles[h].notified
  /\ \/ handles[h].state = "stopped"
     \/ /\ handles[h].state = "playing"
        /\ CtxClock(handles[h].sess) >= ActualEnd(h)
  /\ handles' = [handles EXCEPT
       ![h].notified = TRUE,
       ![h].state = IF @ = "playing" THEN "ended" ELSE @]
  /\ sources' = {}
  /\ last' = Quiet
  /\ UNCHANGED <<isActive, rendered, sessionRef, audioContextRef, nextStartTime,
                 sessions, pending, now, arrivals, intrSinceLast>>

\* line 89: the node's ended event, after it played to its end or was stopped
OnEnded(h) ==
  /\ UNCHANGED nonLive
  /\ pending = <<>>
  /\ ~handles[h].notified
  /\ \/ handles[h].state = "stopped"
     \/ /\ handles[h].state = "playing"
        /\ CtxClock(handles[h].sess) >= ActualEnd(h)
  /\ handles' = [handles EXCEPT
       ![h].notified = TRUE,
       ![h].state = IF @ = "playing" THEN "ended" ELSE @]
  /\ sources' = sources \ {h}
  /\ last' = Quiet
  /\ UNCHANGED <<isActive, rendered, sessionRef, audioContextRef, nextStartTime,
                 sessions, pending, now, arrivals, intrSinceLast>>

\* Time passes: every audio context's currentTime advances, also while a
\* payload is being decoded.  Time that passes before the first audio
\* context exists is not observable.
Tick ==
  /\ UNCHANGED nonLive
  /\ sessions # <<>>
  /\ now < MaxTime
  /\ now' = now + 1
  /\ UNCHANGED <<isActive, rendered, sessionRef, audioContextRef, nextStartTime,
                 sources, sessions, handles, pending, arrivals, intrSinceLast, last>>

\* The session state machine: the button, the connection's callbacks and the
\* capture callback, for up to MaxSessions calls of startSession
NextSession ==
  \/ Click
  \/ StartSessionNoDevice
  \/ Render
  \/ \E c \in SessionIds : MicGranted(c)
  \/ \E c \in SessionIds : MicDenied(c)
  \/ \E c \in SessionIds : OnOpen(c)
  \/ \E c \in SessionIds : Resolve(c)
  \/ \E c \in SessionIds : Frame(c)
  \/ \E c \in SessionIds : OnClose(c)
  \/ \E c \in SessionIds : OnError(c)

SpecSession == Init /\ [][NextSession]_vars

\* The playback scheduler of the first session: inbound messages, decoding,
\* the nodes' ended events and the audio clock
NextPlayback ==
  \/ (sessions = <<>> /\ Click)
  \/ \E c \in SessionIds : MicGranted(c)
  \/ \E c \in SessionIds : OnOpen(c)
  \/ \E c \in SessionIds, d \in Durations, i \in BOOLEAN : OnMessageAudio(c, d, i)
  \/ \E c \in SessionIds : OnMessageInterrupt(c)
  \/ DecodeDone
  \/ \E h \in HandleIds : OnEnded(h)
  \/ Tick

SpecPlayback == Init /\ [][NextPlayback]_vars

\* The first session from start to teardown with playback going on: the
\* button, the connection's callbacks, inbound audio and the audio clock
NextTeardown ==
  \/ ((sessions = <<>> \/ rendered) /\ Click)
  \/ Render
  \/ \E c \in SessionIds : MicGranted(c)
  \/ \E c \in SessionIds : OnOpen(c)
  \/ \E c \in SessionIds : Resolve(c)
  \/ \E c \in SessionIds : OnClose(c)
  \/ \E c \in SessionIds : OnError(c)
  \/ \E c \in SessionIds, d \in Durations : OnMessageAudio(c, d, FALSE)
  \/ DecodeDone
  \/ \E h \in HandleIds : OnEnded(h)
  \/ Tick

SpecTeardown == Init /\ [][NextTeardown]_vars

\* The first session with inbound audio some of which does not decode
NextFaults ==
  \/ (sessions = <<>> /\ Click)
  \/ \E c \in SessionIds : MicGranted(c)
  \/ \E c \in SessionIds : OnOpen(c)
  \/ \E c \in SessionIds, d \in Durations : OnMessageAudio(c, d, FALSE)
  \/ \E c \in SessionIds : OnMessageMalformed(c)
  \/ DecodeDone
  \/ \E h \in HandleIds : OnEnded(h)
  \/ Tick

SpecFaults == Init /\ [][NextFaults]_vars

\* Two sessions one after the other with the callbacks and the inbound
\* messages of both: the first is stopped, the second is started, and the
\* first connection's late callbacks run
NextOverlap ==
  \/ Click
  \/ Render
  \/ \E c \in SessionIds : MicGranted(c)
  \/ \E c \in SessionIds : OnOpen(c)
  \/ \E c \in SessionIds : Resolve(c)
  \/ \E c \in SessionIds : OnClose(c)
  \/ \E c \in SessionIds, d \in Durations : OnMessageAudio(c, d, FALSE)
  \/ \E c \in SessionIds : OnMessageInterrupt(c)
  \/ DecodeDone

SpecOverlap == Init /\ [][NextOverlap]_vars

-----------------------------------------------------------------------------
(* encode and decode, lines 5-22.  A JavaScript string is the sequence of its
   code units; a base64 text is the sequence of its symbols, each symbol being
   its index 0..63 in the alphabet A-Z a-z 0-9 + /, and Pad being "=". *)

MaxCodecLen == 4

Pad == 64

\* The values a Uint8Array element can hold
Bytes == 0..255

\* Byte values used for the buffers longer than two bytes: both ends of the
\* range and the values around the sextet and sign boundaries
ByteSamples == {0, 1, 63, 64, 127, 128, 254, 255}

\* line 9: String.fromCharCode of one element
FromCharCode(b) == b % 65536

\* lines 6-10: the binary string built from the buffer
BinaryString(bytes) == [i \in 1..Len(bytes) |-> FromCharCode(bytes[i])]

\* Mutant of Quad: the second sextet loses the high bits of the second byte
QuadLossy(b1, b2, b3) ==
  <<b1 \div 4, (b1 % 4) * 16, (b2 % 16) * 4 + b3 \div 64, b3 % 64>>

\* btoa on three code units: 24 bits as four sextets
Quad(b1, b2, b3) ==
  <<b1 \div 4, (b1 % 4) * 16 + b2 \div 16, (b2 % 16) * 4 + b3 \div 64, b3 % 64>>

\* line 11: btoa; the last group of one or two code units is padded.  Every
\* code unit is at most 255 here, so btoa does not throw.
RECURSIVE Btoa(_)
Btoa(str) ==
  CASE Len(str) = 0 -> <<>>
    [] Len(str) = 1 -> <<Quad(str[1], 0, 0)[1], Quad(str[1], 0, 0)[2], Pad, Pad>>
    [] Len(str) = 2 -> <<Quad(str[1], str[2], 0)[1], Quad(str[1], str[2], 0)[2],
                         Quad(str[1], str[2], 0)[3], Pad>>
    [] OTHER -> Quad(str[1], str[2], str[3]) \o Btoa(SubSeq(str, 4, Len(str)))

\* lines 5-12
encode(bytes) == Btoa(BinaryString(bytes))

\* atob on four symbols: four sextets as three code units
Triple(s1, s2, s3, s4) ==
  <<s1 * 4 + s2 \div 16, (s2 % 16) * 16 + s3 \div 4, (s3 % 4) * 64 + s4>>

\* atob: one or two trailing "=" of a text whose length is a multiple of four
\* are removed
StripPad(text) ==
  LET n == Len(text) IN
    IF n > 0 /\ n % 4 = 0 /\ text[n] = Pad
      THEN IF text[n - 1] = Pad THEN SubSeq(text, 1, n - 2) ELSE SubSeq(text, 1, n - 1)
      ELSE text

\* atob on the symbols left: full groups give three code units, a last group
\* of two or three symbols gives one or two and its spare bits are dropped
RECURSIVE AtobSymbols(_)
AtobSymbols(t) ==
  CASE Len(t) = 0 -> <<>>
    [] Len(t) = 2 -> <<Triple(t[1], t[2], 0, 0)[1]>>
    [] Len(t) = 3 -> <<Triple(t[1], t[2], t[3], 0)[1], Triple(t[1], t[2], t[3], 0)[2]>>
    [] OTHER -> Triple(t[1], t[2], t[3], t[4]) \o AtobSymbols(SubSeq(t, 5, Len(t)))

\* The outcome of a call that threw InvalidCharacterError: no code unit is negative
Thrown == <<-1>>

\* line 15: atob; it throws when a symbol is left that is not of the alphabet
\* or when the length left is 1 modulo 4
Atob(text) ==
  LET t == StripPad(text) IN
    IF Len(t) % 4 = 1 \/ \E i \in 1..Len(t) : t[i] \notin 0..63
      THEN Thrown
      ELSE AtobSymbols(t)

\* line 19: a code unit stored into a Uint8Array element
StoreByte(u) == u % 256

\* lines 14-22
decode(text) ==
  LET binaryString == Atob(text) IN
    IF binaryString = Thrown
      THEN Thrown
      ELSE [i \in 1..Len(binaryString) |-> StoreByte(binaryString[i])]

\* The buffers the codec is run on: every buffer of at most two bytes, and
\* the longer ones over the sample values
CodecInputs ==
  UNION {[1..n -> Bytes] : n \in 0..2}
    \cup UNION {[1..n -> ByteSamples] : n \in 3..MaxCodecLen}

InitCodec ==
  /\ InitLive
  /\ InitOther
  /\ pcm = IdlePcm
  /\ \E b \in CodecInputs :
       codec = [pc |-> "input", bytes |-> b, text |-> <<>>, out |-> <<>>]

\* encode is called on the buffer
CodecEncode ==
  /\ codec.pc = "input"
  /\ codec' = [codec EXCEPT !.pc = "encoded", !.text = encode(codec.bytes)]
  /\ UNCHANGED <<sessionVars, pcm, app, notes, studio, player, chat>>

\* decode is called on the text encode returned
CodecDecode ==
  /\ codec.pc = "encoded"
  /\ codec' = [codec EXCEPT !.pc = "decoded", !.out = decode(codec.text)]
  /\ UNCHANGED <<sessionVars, pcm, app, notes, studio, player, chat>>

NextCodec ==
  \/ CodecEncode
  \/ CodecDecode

SpecCodec == InitCodec /\ [][NextCodec]_vars

-----------------------------------------------------------------------------
(* The sample conversions of decodeAudioData (line 37) and of the capture
   callback (line 71).  A float is the exact fraction num/den: the quotient
   of a 16-bit integer by 2^15 has at most 16 significant bits, so the
   Float32Array element holds it exactly, and so is its product with 2^15. *)

Scale == 32768

\* The values an Int16Array element can hold
Int16Values == -32768..32767

\* Mutant of ToFloat: the sample is divided by 32767
ToFloatBy32767(x) == [num |-> x, den |-> 32767]

\* line 37: dataInt16[i] / 32768.0
ToFloat(x) == [num |-> x, den |-> Scale]

\* line 71: inputData[i] * 32768, the exact product as a fraction
Times(f, k) ==
  IF f.den % k = 0
    THEN [num |-> f.num, den |-> f.den \div k]
    ELSE [num |-> f.num * k, den |-> f.den]

\* The integer part of a fraction, towards zero
Trunc(f) == IF f.num >= 0 THEN f.num \div f.den ELSE -((-f.num) \div f.den)

\* A number stored into an Int16Array element: its integer part modulo 2^16,
\* read as a signed 16-bit integer
ToInt16(f) == ((Trunc(f) + 32768) % 65536) - 32768

\* line 71: int16[i] = inputData[i] * 32768
ToPcm(f) == ToInt16(Times(f, Scale))

InitPcm ==
  /\ InitLive
  /\ InitOther
  /\ codec = IdleCodec
  /\ \E x \in Int16Values :
       pcm = [pc |-> "input", int |-> x, flt |-> [num |-> 0, den |-> 1], back |-> 0]

\* decodeAudioData converts the sample
PcmToFloat ==
  /\ pcm.pc = "input"
  /\ pcm' = [pcm EXCEPT !.pc = "float", !.flt = ToFloat(pcm.int)]
  /\ UNCHANGED <<sessionVars, codec, app, notes, studio, player, chat>>

\* the capture callback converts the float back
PcmFromFloat ==
  /\ pcm.pc = "float"
  /\ pcm' = [pcm EXCEPT !.pc = "back", !.back = ToPcm(pcm.flt)]
  /\ UNCHANGED <<sessionVars, codec, app, notes, studio, player, chat>>

NextPcm ==
  \/ PcmToFloat
  \/ PcmFromFloat

SpecPcm == InitPcm /\ [][NextPcm]_vars

\* The float samples the capture conversion is run on: the multiples of
\* 1/SampleDen from -1.5 to 1.5, half a 16-bit step apart
SampleDen == 65536

SampleNums == -98304..98304

InitCapture ==
  /\ InitLive
  /\ InitOther
  /\ codec = IdleCodec
  /\ \E k \in SampleNums :
       pcm = [pc |-> "sample", int |-> 0, flt |-> [num |-> k, den |-> SampleDen],
              back |-> 0]

\* lines 68-71 on one sample of the input buffer
CaptureConvert ==
  /\ pcm.pc = "sample"
  /\ pcm' = [pcm EXCEPT !.pc = "captured", !.back = ToPcm(pcm.flt)]
  /\ UNCHANGED <<sessionVars, codec, app, notes, studio, player, chat>>

NextCapture ==
  \/ CaptureConvert

SpecCapture == InitCapture /\ [][NextCapture]_vars

-----------------------------------------------------------------------------
(* Properties of the playback scheduler, checked under SpecPlayback *)

PrevEnd(k) == handles[k - 1].startAt + handles[k - 1].dur

\* C1 as stated: with no interruption in between, segments are started in
\* the order their messages arrived and never overlap: each scheduled start
\* is at or after the previous segment's scheduled end, and exactly at it
\* whenever the message arrived no later than that end.
C1_BackToBackByArrival ==
  \A k \in 2..Len(handles) :
    handles[k].chain =>
      /\ handles[k].seq > handles[k - 1].seq
      /\ handles[k].startAt >= PrevEnd(k)
      /\ (handles[k].at <= PrevEnd(k) => handles[k].startAt = PrevEnd(k))

\* C1 as amended: with no interruption in between, segments are started in
\* the order their messages arrived and never overlap: each scheduled start
\* is at or after the previous segment's scheduled end, and exactly at it
\* whenever the segment is scheduled (its decode has completed) no later
\* than that end.
C1_OrderedBackToBack ==
  \A k \in 2..Len(handles) :
    handles[k].chain =>
      /\ handles[k].seq > handles[k - 1].seq
      /\ handles[k].startAt >= PrevEnd(k)
      /\ (handles[k].began <= PrevEnd(k) => handles[k].startAt = PrevEnd(k))

\* Two segments in a row, the second arrived and was scheduled while the first
\* was playing, at the first one's end and later than the device clock
C1_Witness ==
  /\ Len(handles) >= 2
  /\ handles[2].chain
  /\ handles[2].at > handles[1].at
  /\ handles[2].began < PrevEnd(2)
  /\ handles[2].startAt = PrevEnd(2)
  /\ handles[2].startAt > handles[2].began

\* C2: enqueueing a segment schedules it at max(nextStartTime, device clock)
\* and then sets nextStartTime to that start plus the segment's duration.
\* cursor and began are the cursor and the device clock at the moment the
\* segment is scheduled (line 86).
C2_EnqueueAtMaxOfCursorAndClock ==
  last.op = "started" =>
    LET h == handles[Len(handles)] IN
      /\ h.startAt = Max(h.cursor, h.began)
      /\ nextStartTime = h.startAt + h.dur

\* C3: no segment is started in the past: the time passed to start is at
\* least the device clock at the moment start is called.
C3_NeverStartsInPast ==
  \A h \in HandleIds : handles[h].startAt >= handles[h].began

\* C4: after an interruption message was processed every node of the active
\* set is stopped, the set is empty and the cursor is 0, so that the next
\* clamp (line 81) yields the device clock and not a stale future time.
C4_InterruptClearsAndResets ==
  last.op = "interrupt" =>
    /\ sources = {}
    /\ nextStartTime = 0
    /\ \A h \in HandleIds : handles[h].state # "playing"
    /\ \A c \in SessionIds : ClampCursor(nextStartTime, CtxClock(c)) = CtxClock(c)

\* An interruption that stopped a node in the middle of its playback, with
\* the cursor ahead of the device clock before it
C4_Witness ==
  /\ last.op = "interrupt"
  /\ \E h \in HandleIds :
       /\ handles[h].state = "stopped"
       /\ CtxClock(handles[h].sess) > 0
       /\ CtxClock(handles[h].sess) < ActualEnd(h)

\* C5: an interruption discards all residual audio: no segment whose message
\* arrived before an interruption was processed starts or continues playing
\* after it.
C5_NoResidualAudio ==
  \A h \in HandleIds : handles[h].cut => ~Audible(h)

-----------------------------------------------------------------------------
(* Properties of the session state machine, checked under SpecSession *)

\* C6: once a session has left active (stopSession closed it, or its close
\* or error callback ran) no further packet is handed to the send call.
C6_NoSendAfterLeavingActive ==
  \A c \in SessionIds : ~sessions[c].lateSent

\* C7: stopSession on the active session closes the transport, releases the
\* microphone (stream and capture nodes) and leaves the flag inactive.
C7_StopClosesAndReleases ==
  (last.op = "stop" /\ last.wasActive) =>
    /\ sessions[last.sess].closeCalls >= 1
    /\ sessions[last.sess].status \in {"closing", "closed"}
    /\ ~isActive
    /\ sessions[last.sess].mic # "granted"
    /\ ~sessions[last.sess].capturing

\* C8: after the error callback ran on an active session the flag is
\* inactive and the session is closed.
C8_ErrorForcesClosed ==
  (last.op = "error" /\ last.wasActive) =>
    /\ ~isActive
    /\ sessions[last.sess].status \in {"closing", "closed"}

\* The connections that are being opened or are open
LiveConnections == {c \in SessionIds : sessions[c].status \in {"connecting", "open"}}

\* C9: startSession is accepted in idle only, so at most one connection and
\* one capture pipeline exist at any time, and no microphone is requested
\* while a connection exists.
C9_AtMostOneConnection ==
  /\ Cardinality(LiveConnections) <= 1
  /\ Cardinality({c \in SessionIds : sessions[c].capturing}) <= 1
  /\ \A c \in SessionIds : sessions[c].mic = "pending" => LiveConnections = {}

\* C10: a second stopSession right after the first changes no state and does
\* not call close again.
C10_StopIdempotent ==
  (last.op = "stop" /\ last.again) => ~last.changed

\* Two calls in a row, the first of which closed the session
C10_Witness ==
  /\ last.op = "stop"
  /\ last.again
  /\ sessionRef = 0
  /\ \E c \in SessionIds : sessions[c].closeCalls = 1

-----------------------------------------------------------------------------
(* Properties of teardown and of faulty input, checked under SpecTeardown,
   SpecPlayback, SpecFaults and SpecSession *)

\* C11: an audio message delivered after its session has left active (after
\* stopSession, the close callback or the error callback) is dropped: no
\* decode is started for it, so the cursor is not touched, and no node is
\* created for it.
C11_LateAudioDropped ==
  /\ \A i \in DOMAIN pending : ~pending[i].late
  /\ \A h \in HandleIds : ~handles[h].late

\* C12: after stopSession no node that was scheduled before keeps playing
\* and the active set is empty.
C12_StopTearsDownPlayback ==
  last.op = "stop" =>
    /\ sources = {}
    /\ \A h \in HandleIds : ~Audible(h)

\* C13: processing an interruption, carried by a message of its own or by
\* an audio message, changes nothing of the session: the flag, the session
\* reference, the connection's status and the capture pipeline are as before.
C13_InterruptKeepsSession ==
  [][last'.op = "interrupt" =>
       /\ isActive' = isActive
       /\ sessionRef' = sessionRef
       /\ audioContextRef' = audioContextRef
       /\ sessions' = sessions]_vars

\* An interruption has just stopped a node of an active, open, capturing session
C13_Witness ==
  /\ last.op = "interrupt"
  /\ isActive
  /\ \E h \in HandleIds :
       /\ handles[h].state = "stopped"
       /\ sessions[handles[h].sess].status = "open"
       /\ sessions[handles[h].sess].capturing

\* C14: a message whose audio payload does not decode is dropped and nothing
\* else happens: the session stays as it was (flag, reference, connection,
\* capture), the active set and its nodes are unchanged, and decodes in
\* flight stay in flight; audio that arrives afterwards is scheduled.
C14_MalformedDropsOneMessage ==
  [][last'.op = "malformed" =>
       /\ isActive' = isActive
       /\ sessionRef' = sessionRef
       /\ sessions' = sessions
       /\ sources' = sources
       /\ handles' = handles
       /\ pending' = pending]_vars

\* A valid message that arrived right after a malformed one, on a session that
\* is still active and open, was decoded and its node is in the active set
C14_Witness ==
  /\ isActive
  /\ \E h \in sources :
       /\ handles[h].afterBad
       /\ handles[h].state = "playing"
       /\ sessions[handles[h].sess].status = "open"

\* C15: when the microphone is denied or an audio context cannot be created,
\* startSession fails: it opens no connection and wires no capture, it leaves
\* the flag as it was, and the flag is set only when some call of
\* startSession got its microphone and its connection opened.
C15_FailedStartStaysIdle ==
  /\ \A c \in SessionIds :
       sessions[c].mic = "denied" =>
         /\ sessions[c].status = "none"
         /\ ~sessions[c].capturing
         /\ ~sessions[c].resolved
         /\ sessions[c].frames = 0
  /\ last.op \in {"denied", "nodevice"} => isActive = last.wasActive
  /\ isActive => \E c \in SessionIds :
                   sessions[c].mic = "granted" /\ sessions[c].capturing

\* The only call of startSession was refused the microphone: idle, no connection
C15_Witness ==
  /\ last.op = "denied"
  /\ ~isActive
  /\ Len(sessions) = 1
  /\ sessions[1].mic = "denied"
  /\ sessions[1].status = "none"
  /\ sessionRef = 0

\* C16: once stopSession, a close callback or an error callback has run, a
\* call of startSession made before it opens no connection and does not set
\* the flag: such a session's status changes only towards closed, and the
\* flag is set only by a session started afterwards.
C16_ClosedIsTerminal ==
  [][\A c \in SessionIds :
       sessions[c].stale =>
         /\ sessions'[c].status # sessions[c].status =>
              sessions'[c].status \in {"closing", "closed"}
         /\ sessions'[c].capturing = sessions[c].capturing
         /\ (~isActive /\ isActive') =>
              \E d \in SessionIds : ~sessions[d].stale /\ sessions'[d].status = "open"]_vars

\* The place of a connection's status on the way idle, connecting, active, closed
Rank(st) ==
  CASE st = "none" -> 0
    [] st = "connecting" -> 1
    [] st = "open" -> 2
    [] st = "closing" -> 3
    [] st = "closed" -> 4

\* C17: the session state only moves forward.  For each call of startSession
\* the connection's status never goes back, capture is wired only in the step
\* in which the connection goes from connecting to open (its open callback),
\* no frame is captured or sent for a connection that has not opened, and the
\* step in which a connection becomes closed leaves the flag inactive.  For
\* the component, the flag is set only by the open callback of a connection,
\* and never by a call of startSession made before the session was stopped,
\* closed or failed: closed does not go back to active.
C17_ForwardOnly ==
  [][/\ \A c \in SessionIds :
         /\ Rank(sessions'[c].status) >= Rank(sessions[c].status)
         /\ (~sessions[c].capturing /\ sessions'[c].capturing) =>
              (sessions[c].status = "connecting" /\ sessions'[c].status = "open")
         /\ (sessions'[c].frames > 0 \/ sessions'[c].sent # <<>>) =>
              Rank(sessions[c].status) >= 2
         /\ (sessions[c].status # "closed" /\ sessions'[c].status = "closed") =>
              ~isActive'
     /\ (~isActive /\ isActive') =>
          \E c \in SessionIds :
            /\ sessions[c].status = "connecting"
            /\ sessions'[c].status = "open"
            /\ ~sessions[c].stale]_vars

\* C18: the packets handed to sendRealtimeInput, followed by those still
\* queued on the connection promise, are the captured frames in capture
\* order, one packet per frame, each tagged audio/pcm;rate=16000; nothing is
\* sent before the promise resolves and nothing stays queued after.
C18_PacketsInCaptureOrder ==
  \A c \in SessionIds :
    LET all == sessions[c].sent \o sessions[c].waiting IN
      /\ Len(all) = sessions[c].frames
      /\ \A i \in 1..Len(all) : all[i].n = i /\ all[i].mimeType = "audio/pcm;rate=16000"
      /\ sessions[c].resolved => sessions[c].waiting = <<>>
      /\ ~sessions[c].resolved => sessions[c].sent = <<>>

\* Two frames were captured before the connection promise resolved and both
\* have been sent
C18_Witness ==
  \E c \in SessionIds :
    /\ sessions[c].resolved
    /\ Len(sessions[c].sent) = 2
    /\ sessions[c].sent[1].queued
    /\ sessions[c].sent[2].queued

\* C19: decode(encode(bytes)) is bytes, element for element, for the empty
\* buffer and for buffers of every length and byte value.
C19_CodecRoundTrip ==
  codec.pc = "decoded" => codec.out = codec.bytes

\* A two-byte buffer with the top byte values went through both functions;
\* its text is one padded group
C19_Witness ==
  /\ codec.pc = "decoded"
  /\ codec.bytes = <<255, 128>>
  /\ Len(codec.text) = 4
  /\ codec.text[4] = Pad
  /\ codec.out = <<255, 128>>

\* C20: a 16-bit sample divided by 32768 and then multiplied by 32768 and
\* stored into an Int16Array differs from the original by at most 1, for every
\* value of the 16-bit range.
C20_SampleRoundTrip ==
  pcm.pc = "back" =>
    /\ pcm.back - pcm.int <= 1
    /\ pcm.int - pcm.back <= 1

\* The lowest 16-bit value went through both conversions, by way of -1.0
C20_Witness ==
  /\ pcm.pc = "back"
  /\ pcm.int = -32768
  /\ pcm.flt.num = -pcm.flt.den
  /\ pcm.back = -32768

-----------------------------------------------------------------------------
(* Properties of the capture conversion, checked under SpecCapture *)

\* The sample is in the range [-1, 1]
InRange(f) == -f.den <= f.num /\ f.num <= f.den

\* C21: the capture conversion gives, for every sample in [-1, 1], the
\* truncated product of the sample and 32768 itself, with no wraparound; a
\* result that differs from the truncated product comes from a sample
\* outside that range.
C21_InRangeNoWrap ==
  pcm.pc = "captured" =>
    /\ InRange(pcm.flt) => pcm.back = Trunc(Times(pcm.flt, Scale))
    /\ pcm.back # Trunc(Times(pcm.flt, Scale)) => ~InRange(pcm.flt)

-----------------------------------------------------------------------------
(* Further properties of the playback scheduler, checked under SpecPlayback *)

\* C22: the active set holds exactly the nodes that were started and whose
\* playback has neither ended (ended event) nor been stopped by an
\* interruption; so the ended event of a stopped node removes no other node.
C22_ActiveSetExact ==
  sources = {h \in HandleIds : handles[h].state = "playing"}

\* The ended event of a node stopped by an interruption has fired while a
\* node started after the interruption is in the set
C22_Witness ==
  \E h, k \in HandleIds :
    /\ handles[h].state = "stopped"
    /\ handles[h].notified
    /\ handles[k].state = "playing"
    /\ sources = {k}

-----------------------------------------------------------------------------
(* Further properties of the session state machine, checked under SpecSession
   and SpecOverlap *)

\* C23: stopSession run after a connection's open callback closes that
\* connection, whether or not line 106 has stored the session yet: right
\* after stopSession no connection is open, and whenever the flag is
\* inactive no connection is open with its capture pipeline sending.
C23_StopClosesOpenSession ==
  /\ last.op = "stop" => \A c \in SessionIds : sessions[c].status # "open"
  /\ ~isActive => \A c \in SessionIds :
                    ~(sessions[c].status = "open" /\ sessions[c].capturing)

\* Session c was stopped by stopSession and a session started after that
\* has reached active
Newer(c) ==
  /\ sessions[c].closeCalls >= 1
  /\ \E d \in SessionIds :
       d > c /\ sessions[d].status = "open" /\ ~sessions[d].stale

\* C24: once a session was stopped and a later session is active, the
\* callbacks of the earlier connection change nothing of the later one: its close callback leaves the flag as it
\* is, and its audio and interruption messages leave the cursor and the
\* active set as they are.
C24_OldCallbacksHarmless ==
  [][\A c \in SessionIds :
       Newer(c) =>
         /\ (sessions[c].status # "closed" /\ sessions'[c].status = "closed") =>
              isActive' = isActive
         /\ (Len(pending') > Len(pending) /\ pending'[Len(pending')].sess = c) =>
              nextStartTime' = nextStartTime
         /\ (Len(handles') > Len(handles) /\ handles'[Len(handles')].sess = c) =>
              (nextStartTime' = nextStartTime /\ sources' = sources)
         /\ (last'.op = "interrupt" /\ last'.sess = c) =>
              (nextStartTime' = nextStartTime /\ sources' = sources)]_vars

-----------------------------------------------------------------------------
(* App and Sidebar: the sources list, src/App.tsx lines 11 and 53-57, and the
   file uploads of Sidebar.processFile, src/unnamed/part_000 lines 36-74.  A
   source is its id; ids are fresh, the clock of Date.now() having advanced
   between two calls. *)

MaxSources == 3
MaxUploads == 2

Range(q) == {q[i] : i \in DOMAIN q}

\* App.tsx line 54, called through a closure in which sources is the list seen
AddedTo(seen, id) == Append(seen, id)

\* App.tsx line 57, called through a closure in which sources is the list seen
RemovedFrom(seen, id) == SelectSeq(seen, LAMBDA x : x # id)

\* App.tsx lines 35-37: the effect that follows every change of sources
Saved(list) == [has |-> TRUE, list |-> list]

\* App.tsx lines 30-33 and 35-37: the effects of the first render; the saved
\* list, when there is one, becomes the sources
MountApp ==
  /\ ~app.mounted
  /\ LET loaded == IF app.saved.has THEN app.saved.list ELSE app.sources
     IN app' = [app EXCEPT !.sources = loaded, !.saved = Saved(loaded),
                           !.mounted = TRUE]
  /\ UNCHANGED <<sessionVars, codec, pcm, notes, studio, player, chat>>

\* The page is opened again: App is constructed anew (line 11); localStorage
\* and the clock are kept, the closures of the former page are gone
RevisitApp ==
  /\ app.mounted
  /\ app' = [app EXCEPT !.sources = <<>>, !.uploads = <<>>, !.mounted = FALSE]
  /\ UNCHANGED <<sessionVars, codec, pcm, notes, studio, player, chat>>

\* Sidebar.handleAddUrl: onAddSource of the current render is called at once
AddSource ==
  /\ app.mounted
  /\ app.nextId <= MaxSources
  /\ LET list == AddedTo(app.sources, app.nextId)
     IN app' = [app EXCEPT !.sources = list, !.saved = Saved(list),
                           !.nextId = @ + 1,
                           !.added = @ \cup {app.nextId}]
  /\ UNCHANGED <<sessionVars, codec, pcm, notes, studio, player, chat>>

\* processFile lines 36-40 and 73: the reader is started; its onload closure
\* holds the onAddSource of this render, and with it this render's sources
BeginUpload ==
  /\ app.mounted
  /\ Len(app.uploads) < MaxUploads
  /\ app' = [app EXCEPT !.uploads = Append(@, app.sources)]
  /\ UNCHANGED <<sessionVars, codec, pcm, notes, studio, player, chat>>

\* The uploads in progress without the i-th
WithoutUpload(i) ==
  [j \in 1..(Len(app.uploads) - 1) |->
     IF j < i THEN app.uploads[j] ELSE app.uploads[j + 1]]

\* processFile lines 40-64: the file was read (and the image described) and
\* the closure's onAddSource is called
UploadDone(i) ==
  /\ app.nextId <= MaxSources
  /\ LET list == AddedTo(app.uploads[i], app.nextId)
     IN app' = [app EXCEPT !.sources = list, !.saved = Saved(list),
                           !.nextId = @ + 1,
                           !.added = @ \cup {app.nextId},
                           !.uploads = WithoutUpload(i)]
  /\ UNCHANGED <<sessionVars, codec, pcm, notes, studio, player, chat>>

\* processFile lines 65-67: describeImage or atob threw, nothing is added
UploadFailed(i) ==
  /\ app' = [app EXCEPT !.uploads = WithoutUpload(i)]
  /\ UNCHANGED <<sessionVars, codec, pcm, notes, studio, player, chat>>

\* The remove button of a listed source: onRemoveSource of the current render
RemoveSource(id) ==
  /\ app.mounted
  /\ LET list == RemovedFrom(app.sources, id)
     IN app' = [app EXCEPT !.sources = list, !.saved = Saved(list),
                           !.removed = @ \cup {id}]
  /\ UNCHANGED <<sessionVars, codec, pcm, notes, studio, player, chat>>

NextApp ==
  \/ MountApp
  \/ RevisitApp
  \/ AddSource
  \/ BeginUpload
  \/ \E i \in DOMAIN app.uploads : UploadDone(i)
  \/ \E i \in DOMAIN app.uploads : UploadFailed(i)
  \/ \E id \in Range(app.sources) : RemoveSource(id)

SpecApp == Init /\ [][NextApp]_vars

\* C25: no added source is lost: every source that was passed to addSource
\* and not removed by removeSource is in the sources list of the mounted App.
C25_NoSourceLost ==
  app.mounted => (app.added \ app.removed) \subseteq Range(app.sources)

-----------------------------------------------------------------------------
(* NotesInterface, src/components/LiveInterface.tsx lines 159-308.  A note is
   its id, its folderId, the number of text updates merged into it (rev) and
   whether its content is non-empty; a folder is its id.  On a wide screen
   the three panes are shown side by side (lines 313 and 416), so every
   handler can run whatever viewState is. *)

MaxNoteIds == 3
MaxEdits == 2

\* lines 175-180: the effect of the first render; the saved notes and
\* folders, when there are any, become the lists
MountNotes ==
  /\ ~notes.mounted
  /\ notes' = IF notes.saved.has
              THEN [notes EXCEPT !.notes = notes.saved.notes,
                                 !.folders = notes.saved.folders,
                                 !.mounted = TRUE]
              ELSE [notes EXCEPT !.mounted = TRUE]
  /\ UNCHANGED <<sessionVars, codec, pcm, app, studio, player, chat>>

\* lines 182-191: the timer set after the last change of notes or folders
\* fires and writes both lists
SaveNotes ==
  /\ notes.mounted
  /\ notes' = [notes EXCEPT !.saved = [has |-> TRUE, notes |-> notes.notes,
                                       folders |-> notes.folders]]
  /\ UNCHANGED <<sessionVars, codec, pcm, app, studio, player, chat>>

\* The page is opened again: NotesInterface is constructed anew (lines
\* 160-166); localStorage and the clock are kept, the timer and the closures
\* of the former page are gone
RevisitNotes ==
  /\ notes.mounted
  /\ notes' = [IdleNotes EXCEPT !.saved = notes.saved, !.nextId = notes.nextId]
  /\ UNCHANGED <<sessionVars, codec, pcm, app, studio, player, chat>>

\* lines 215-226
CreateFolder ==
  /\ notes.mounted
  /\ notes.nextId <= MaxNoteIds
  /\ notes' = [notes EXCEPT !.folders = Append(@, notes.nextId), !.nextId = @ + 1]
  /\ UNCHANGED <<sessionVars, codec, pcm, app, studio, player, chat>>

\* lines 305-308
HandleFolderSelect(f) ==
  /\ notes.mounted
  /\ notes' = [notes EXCEPT !.activeFolderId = f]
  /\ UNCHANGED <<sessionVars, codec, pcm, app, studio, player, chat>>

\* lines 200-213
CreateNote ==
  /\ notes.mounted
  /\ notes.nextId <= MaxNoteIds
  /\ LET newNote ==
           [id |-> notes.nextId,
            folderId |-> IF notes.activeFolderId \notin {AllNotes, Uncategorized}
                           THEN notes.activeFolderId ELSE NoFolder,
            rev |-> 0, content |-> FALSE]
     IN notes' = [notes EXCEPT !.notes = <<newNote>> \o @,
                              !.activeNote = newNote,
                              !.nextId = @ + 1]
  /\ UNCHANGED <<sessionVars, codec, pcm, app, studio, player, chat>>

\* lines 289-293: the notes listed for the selected folder
Listed(n) ==
  \/ notes.activeFolderId = AllNotes
  \/ notes.activeFolderId = Uncategorized /\ n.folderId = NoFolder
  \/ n.folderId = notes.activeFolderId

\* line 447: a listed note is opened
OpenNote(i) ==
  /\ Listed(notes.notes[i])
  /\ notes.activeNote # notes.notes[i]
  /\ notes' = [notes EXCEPT !.activeNote = notes.notes[i]]
  /\ UNCHANGED <<sessionVars, codec, pcm, app, studio, player, chat>>

\* lines 237-244, the confirmation accepted
DeleteFolder(id) ==
  /\ notes' = [notes EXCEPT
       !.folders = SelectSeq(@, LAMBDA f : f # id),
       !.notes = [i \in DOMAIN @ |->
                    IF @[i].folderId = id THEN [@[i] EXCEPT !.folderId = NoFolder]
                                          ELSE @[i]],
       !.activeFolderId = IF @ = id THEN AllNotes ELSE @]
  /\ UNCHANGED <<sessionVars, codec, pcm, app, studio, player, chat>>

\* lines 253-260 from the button of line 523, the confirmation accepted: the
\* open note is deleted
DeleteNote ==
  /\ notes.activeNote # NoNote
  /\ notes' = [notes EXCEPT
       !.notes = SelectSeq(@, LAMBDA n : n.id # notes.activeNote.id),
       !.activeNote = NoNote]
  /\ UNCHANGED <<sessionVars, codec, pcm, app, studio, player, chat>>

\* lines 246-251 with the merged note given
StoreActiveNote(nt, updated) ==
  [nt EXCEPT
    !.activeNote = updated,
    !.notes = [i \in DOMAIN @ |-> IF @[i].id = updated.id THEN updated ELSE @[i]]]

\* lines 499, 265 and 533: the title, the tags or the summary of the open
\* note is edited
EditActiveNote ==
  /\ notes.activeNote # NoNote
  /\ notes.activeNote.rev < MaxEdits
  /\ notes' = StoreActiveNote(notes, [notes.activeNote EXCEPT !.rev = @ + 1])
  /\ UNCHANGED <<sessionVars, codec, pcm, app, studio, player, chat>>

\* lines 561 and 285: the content of the open note is edited, and is
\* non-empty afterwards or not
EditContent(nonEmpty) ==
  /\ notes.activeNote # NoNote
  /\ notes.activeNote.rev < MaxEdits
  /\ notes' = StoreActiveNote(notes, [notes.activeNote EXCEPT !.rev = @ + 1,
                                                             !.content = nonEmpty])
  /\ UNCHANGED <<sessionVars, codec, pcm, app, studio, player, chat>>

\* line 510: the open note is moved to a folder of the list, or to none
MoveActiveNote(f) ==
  /\ notes.activeNote # NoNote
  /\ notes.activeNote.folderId # f
  /\ notes' = StoreActiveNote(notes, [notes.activeNote EXCEPT !.folderId = f])
  /\ UNCHANGED <<sessionVars, codec, pcm, app, studio, player, chat>>

\* lines 270-274 up to the await: this render's activeNote stays in the
\* closure that runs after it
HandleSummarize ==
  /\ notes.activeNote # NoNote
  /\ notes.activeNote.content
  /\ ~notes.isSummarizing
  /\ notes.activeNote.rev < MaxEdits
  /\ notes' = [notes EXCEPT !.isSummarizing = TRUE,
                            !.summarizing = notes.activeNote]
  /\ UNCHANGED <<sessionVars, codec, pcm, app, studio, player, chat>>

\* lines 274-280: summarizeSource settles; a summary that is not empty is
\* merged into the closure's activeNote by the closure's updateActiveNote
Summarized(stored) ==
  /\ notes.isSummarizing
  /\ LET done == [notes EXCEPT !.isSummarizing = FALSE, !.summarizing = NoNote]
     IN notes' = IF stored
                 THEN StoreActiveNote(done, [notes.summarizing EXCEPT !.rev = @ + 1])
                 ELSE done
  /\ UNCHANGED <<sessionVars, codec, pcm, app, studio, player, chat>>

NextNotes ==
  \/ MountNotes
  \/ SaveNotes
  \/ RevisitNotes
  \/ CreateFolder
  \/ \E f \in {AllNotes, Uncategorized} \cup Range(notes.folders) : HandleFolderSelect(f)
  \/ CreateNote
  \/ \E i \in DOMAIN notes.notes : OpenNote(i)
  \/ \E id \in Range(notes.folders) : DeleteFolder(id)
  \/ DeleteNote
  \/ EditActiveNote
  \/ \E nonEmpty \in BOOLEAN : EditContent(nonEmpty)
  \/ \E f \in {NoFolder} \cup Range(notes.folders) : MoveActiveNote(f)
  \/ HandleSummarize
  \/ \E stored \in BOOLEAN : Summarized(stored)

SpecNotes == Init /\ [][NextNotes]_vars

\* C26: no note refers to a deleted folder: every note's folderId is
\* undefined or the id of a folder of the list.
C26_NoDanglingFolder ==
  \A i \in DOMAIN notes.notes :
    \/ notes.notes[i].folderId = NoFolder
    \/ notes.notes[i].folderId \in Range(notes.folders)

-----------------------------------------------------------------------------
(* StudioHub, src/unnamed/part_000 lines 324-367 and 387-480 *)

MaxRequests == 2

\* The tools whose handleToolAction awaits a generation request (lines 343-346)
RequestTools == {"mindmap", "report", "podcast", "summary"}

\* The tools that handleToolAction only opens (line 338); their requests are
\* made by generateImage and generateVideo
PanelTools == {"imagePro", "veoVideo"}

\* The tools whose service call can resolve with a value that is not truthy:
\* lines 604, 614 and 677 return response.text or the inline data as they
\* are, and line 656 returns what JSON.parse makes of the text (null, false,
\* 0 or "" for such a text).  generateImagePro returns a data URL or throws
\* (lines 557-560) and generateVideoVeo returns a string that is never empty
\* (line 594).
EmptyResultTools == {"mindmap", "report", "podcast", "summary"}

\* sources.length of the render in which a tool is clicked (line 338)
SourceCounts == 0..1

\* The requests in flight without the i-th
WithoutRequest(i) ==
  [j \in 1..(Len(studio.requests) - 1) |->
     IF j < i THEN studio.requests[j] ELSE studio.requests[j + 1]]

\* lines 337-346 up to the await; the tool grid is rendered only while no
\* tool is active (line 389).  Without sources a request tool only alerts;
\* for a panel tool no await is reached and line 348 runs in the same call.
HandleToolAction(id, count) ==
  /\ studio.activeTool = "none"
  /\ IF id \in RequestTools
       THEN IF count = 0 THEN studio' = studio
            ELSE /\ Len(studio.requests) < MaxRequests
                 /\ studio' = [studio EXCEPT
                      !.loading = TRUE, !.activeTool = id,
                      !.requests = Append(@, [tool |-> id, stage |-> "generating"])]
       ELSE studio' = [studio EXCEPT !.loading = FALSE, !.activeTool = id]
  /\ UNCHANGED <<sessionVars, codec, pcm, app, notes, player, chat>>

\* lines 351-352 and 359-360 up to the first await, from the buttons of
\* lines 446 and 478, rendered in the panel of the active tool while there
\* is neither loading nor a result
GeneratePanel ==
  /\ studio.activeTool \in PanelTools
  /\ ~studio.loading /\ studio.result = "none"
  /\ Len(studio.requests) < MaxRequests
  /\ studio' = [studio EXCEPT
       !.requests = Append(@, [tool |-> studio.activeTool, stage |-> "key"])]
  /\ UNCHANGED <<sessionVars, codec, pcm, app, notes, player, chat>>

\* lines 352-354 and 360-364: the key is there or was selected, loading is
\* set and the generation request is made
KeyChecked(i) ==
  /\ studio.requests[i].stage = "key"
  /\ studio' = [studio EXCEPT !.loading = TRUE,
                              !.requests[i].stage = "generating"]
  /\ UNCHANGED <<sessionVars, codec, pcm, app, notes, player, chat>>

\* lines 352 and 360: hasSelectedApiKey or openSelectKey rejects, outside the
\* try: the call ends there
KeyRejected(i) ==
  /\ studio.requests[i].stage = "key"
  /\ studio' = [studio EXCEPT !.requests = WithoutRequest(i)]
  /\ UNCHANGED <<sessionVars, codec, pcm, app, notes, player, chat>>

\* lines 343-346, 354 or 363, and 348, 356 or 366: the awaited request
\* resolves, with a value or with none, and is stored as it is
ToolResolved(i, hasValue) ==
  /\ studio.requests[i].stage = "generating"
  /\ hasValue \/ studio.requests[i].tool \in EmptyResultTools
  /\ studio' = [studio EXCEPT
       !.result = IF hasValue THEN studio.requests[i].tool ELSE "none",
       !.loading = FALSE,
       !.requests = WithoutRequest(i)]
  /\ UNCHANGED <<sessionVars, codec, pcm, app, notes, player, chat>>

\* lines 347-348, 355-356 or 365-366: the awaited request rejects; only
\* handleToolAction closes the tool
ToolRejected(i) ==
  /\ studio.requests[i].stage = "generating"
  /\ studio' = [studio EXCEPT
       !.activeTool = IF studio.requests[i].tool \in RequestTools THEN "none" ELSE @,
       !.loading = FALSE,
       !.requests = WithoutRequest(i)]
  /\ UNCHANGED <<sessionVars, codec, pcm, app, notes, player, chat>>

\* line 408: the Back button, rendered whenever a tool is active
Back ==
  /\ studio.activeTool # "none"
  /\ studio' = [studio EXCEPT !.activeTool = "none", !.result = "none"]
  /\ UNCHANGED <<sessionVars, codec, pcm, app, notes, player, chat>>

\* line 435: the "Buat Baru" button, rendered under a shown result
BuatBaru ==
  /\ studio.activeTool # "none"
  /\ ~studio.loading /\ studio.result # "none"
  /\ studio' = [studio EXCEPT !.result = "none"]
  /\ UNCHANGED <<sessionVars, codec, pcm, app, notes, player, chat>>

NextStudio ==
  \/ \E id \in RequestTools \cup PanelTools, count \in SourceCounts :
       HandleToolAction(id, count)
  \/ GeneratePanel
  \/ \E i \in DOMAIN studio.requests : KeyChecked(i)
  \/ \E i \in DOMAIN studio.requests : KeyRejected(i)
  \/ \E i \in DOMAIN studio.requests, hasValue \in BOOLEAN : ToolResolved(i, hasValue)
  \/ \E i \in DOMAIN studio.requests : ToolRejected(i)
  \/ Back
  \/ BuatBaru

SpecStudio == Init /\ [][NextStudio]_vars

\* C27: a response to a request started for one tool changes neither the
\* stored result nor loading while a different tool is active, and the
\* result shown for the active tool was produced for that tool.
C27_ResultOfActiveTool ==
  [][/\ \A i \in DOMAIN studio.requests :
          (/\ studio.requests[i].stage = "generating"
           /\ studio'.requests = WithoutRequest(i)
           /\ studio.activeTool \notin {"none", studio.requests[i].tool}) =>
            (studio'.result = studio.result /\ studio'.loading = studio.loading)
     /\ (studio'.activeTool # "none" /\ studio'.result # "none" /\ ~studio'.loading) =>
          studio'.result = studio'.activeTool]_vars

-----------------------------------------------------------------------------
(* AudioOverview, src/components/AudioOverview.tsx lines 43-135 *)

MaxClock == 7
MaxNodes == 3

\* buffer.duration, in units of 0.05 s
Duration == 5

\* The 0.1 s of line 87, in units of 0.05 s
Threshold == 2

\* The step of the range input (0.1 s), in units of 0.05 s
SeekStep == 2

\* The values the range input can take: min 0, max buffer.duration, step 0.1
SeekPositions == {q \in 0..Duration : q % SeekStep = 0}

Min(a, b) == IF a < b THEN a ELSE b

Abs(a) == IF a < 0 THEN -a ELSE a

\* AudioBufferSourceNode.stop(): a playing node stops and will report
\* onended; on a node that has already ended it does nothing
StoppedNodes(ns, n) ==
  [k \in DOMAIN ns |->
     IF k = n /\ ns[k].state = "playing" THEN [ns[k] EXCEPT !.state = "stopped"]
     ELSE ns[k]]

\* lines 63-72
stopPlayback(pl) ==
  [pl EXCEPT !.nodes = StoppedNodes(pl.nodes, pl.active), !.timer = FALSE,
             !.active = 0, !.isPlaying = FALSE]

\* lines 74-100: start(0, fromOffset) at or past the end of the buffer ends at once
startPlayback(pl, fromOffset) ==
  LET st == stopPlayback(pl)
      node == [state |-> IF fromOffset >= Duration THEN "ended" ELSE "playing",
               start |-> pl.clock, from |-> fromOffset]
  IN  [st EXCEPT !.nodes = Append(@, node), !.startTime = pl.clock,
                 !.offset = fromOffset, !.isPlaying = TRUE,
                 !.currentTime = fromOffset, !.active = Len(st.nodes) + 1,
                 !.timer = TRUE, !.finished = FALSE]

\* sources.length of the render in which generateAudio is called (line 119)
PlayerSourceCounts == 0..1

\* lines 118-128 up to the await, from the button of the first screen (line
\* 156) or "Regenerate Overview" (line 199); neither is rendered while
\* isGenerating.  The node that plays and the interval are left as they are.
GenerateAudio(count) ==
  /\ ~player.isGenerating
  /\ Len(player.nodes) < MaxNodes
  /\ player' = IF count = 0 THEN player
               ELSE [player EXCEPT !.isGenerating = TRUE, !.audioBuffer = FALSE,
                                   !.currentTime = 0, !.offset = 0]
  /\ UNCHANGED <<sessionVars, codec, pcm, app, notes, studio, chat>>

\* lines 128-134 and 139-141: generatePodcast resolves with audio, which is
\* decoded and played from the start
PodcastResolved ==
  /\ player.isGenerating
  /\ player' = startPlayback([player EXCEPT !.isGenerating = FALSE,
                                            !.audioBuffer = TRUE], 0)
  /\ UNCHANGED <<sessionVars, codec, pcm, app, notes, studio, chat>>

\* lines 128-129 and 136-141: generatePodcast resolves without audio or
\* rejects, or the decoding throws
PodcastFailed ==
  /\ player.isGenerating
  /\ player' = [player EXCEPT !.isGenerating = FALSE]
  /\ UNCHANGED <<sessionVars, codec, pcm, app, notes, studio, chat>>

\* lines 102-109, from the button rendered while isPlaying (line 189)
PauseAudio ==
  /\ player.audioBuffer /\ ~player.isGenerating /\ player.isPlaying
  /\ player' = IF player.active = 0 THEN player
               ELSE [player EXCEPT
                       !.offset = @ + (player.clock - player.startTime),
                       !.nodes = StoppedNodes(@, player.active),
                       !.active = 0, !.isPlaying = FALSE, !.timer = FALSE]
  /\ UNCHANGED <<sessionVars, codec, pcm, app, notes, studio, chat>>

\* line 111, from the button rendered while not isPlaying (line 189)
ResumeAudio ==
  /\ player.audioBuffer /\ ~player.isGenerating /\ ~player.isPlaying
  /\ Len(player.nodes) < MaxNodes
  /\ player' = startPlayback(player, player.offset)
  /\ UNCHANGED <<sessionVars, codec, pcm, app, notes, studio, chat>>

\* lines 113-116
HandleSeek(newTime) ==
  /\ player.audioBuffer /\ ~player.isGenerating
  /\ Len(player.nodes) < MaxNodes
  /\ player' = startPlayback(player, newTime)
  /\ UNCHANGED <<sessionVars, codec, pcm, app, notes, studio, chat>>

\* The test of line 87.  Clock readings and offsets are floating-point
\* numbers near the grid points: a difference below the threshold passes the
\* test, one above it fails, and one on it goes either way with the rounding
NearEnd(pl) ==
  LET d == Abs((pl.clock - pl.startTime) + pl.offset - Duration)
  IN  IF d < Threshold THEN {TRUE}
      ELSE IF d = Threshold THEN {TRUE, FALSE}
      ELSE {FALSE}

\* lines 86-91: the onended callback of node n, stopped or run to its end
PlayerOnEnded(n, near) ==
  /\ player.nodes[n].state \in {"stopped", "ended"}
  /\ near \in NearEnd(player)
  /\ player' = IF near
               THEN [player EXCEPT !.nodes[n].state = "done",
                                   !.isPlaying = FALSE, !.currentTime = 0,
                                   !.offset = 0,
                                   !.finished = (player.nodes[n].state = "ended")]
               ELSE [player EXCEPT !.nodes[n].state = "done"]
  /\ UNCHANGED <<sessionVars, codec, pcm, app, notes, studio, chat>>

\* lines 95-99: one tick of the progress interval
ProgressTick ==
  /\ player.timer
  /\ player' = [player EXCEPT !.currentTime =
                   Min((player.clock - player.startTime) + player.offset, Duration)]
  /\ UNCHANGED <<sessionVars, codec, pcm, app, notes, studio, chat>>

\* The audio clock advances by 0.05 s once every pending onended callback
\* has run; a playing node that reaches the end of the buffer ends
ClockTick ==
  /\ player.clock < MaxClock
  /\ \A n \in DOMAIN player.nodes : player.nodes[n].state \notin {"stopped", "ended"}
  /\ player' = [player EXCEPT
       !.clock = @ + 1,
       !.nodes = [k \in DOMAIN player.nodes |->
                    IF /\ player.nodes[k].state = "playing"
                       /\ (player.clock + 1 - player.nodes[k].start) + player.nodes[k].from >= Duration
                    THEN [player.nodes[k] EXCEPT !.state = "ended"]
                    ELSE player.nodes[k]]]
  /\ UNCHANGED <<sessionVars, codec, pcm, app, notes, studio, chat>>

NextPlayer ==
  \/ \E count \in PlayerSourceCounts : GenerateAudio(count)
  \/ PodcastResolved
  \/ PodcastFailed
  \/ PauseAudio
  \/ ResumeAudio
  \/ \E q \in SeekPositions : HandleSeek(q)
  \/ \E n \in DOMAIN player.nodes, near \in BOOLEAN : PlayerOnEnded(n, near)
  \/ ProgressTick
  \/ ClockTick

SpecPlayer == Init /\ [][NextPlayer]_vars

\* C28: isPlaying is true while a source node started by startPlayback is
\* still playing, and the onended callback of a node that was stopped or
\* has ended changes neither isPlaying nor currentTime nor the stored
\* offset while a newer node is playing, wherever that node was started.
C28_PlayingNodeKeepsState ==
  /\ [](\A n \in DOMAIN player.nodes :
          player.nodes[n].state = "playing" => player.isPlaying)
  /\ [][\A n \in DOMAIN player.nodes :
          (/\ player.nodes[n].state \in {"stopped", "ended"}
           /\ player'.nodes[n].state = "done"
           /\ \E m \in DOMAIN player.nodes : player.nodes[m].state = "playing") =>
            /\ player'.isPlaying = player.isPlaying
            /\ player'.currentTime = player.currentTime
            /\ player'.offset = player.offset]_vars

\* C30: after the reset that follows a natural end of the buffer, isPlaying
\* is false and currentTime and the stored offset are 0 until the user plays
\* or seeks again.
C30_ResetStaysAfterEnd ==
  player.finished =>
    (~player.isPlaying /\ player.currentTime = 0 /\ player.offset = 0)

-----------------------------------------------------------------------------
(* ChatInterface, src/components/ChatInterface.tsx lines 11-84 and 140-160 *)

MaxMessages == 4

\* line 156: the text box is changed, to a text (with a character that is
\* not blank) or to none
TypeInput(hasText) ==
  /\ chat.input # hasText
  /\ chat' = [chat EXCEPT !.input = hasText]
  /\ UNCHANGED <<sessionVars, codec, pcm, app, notes, studio, player>>

\* lines 27-33
HandleFileUpload ==
  /\ ~chat.attachment
  /\ chat' = [chat EXCEPT !.attachment = TRUE]
  /\ UNCHANGED <<sessionVars, codec, pcm, app, notes, studio, player>>

\* line 146
RemoveAttachment ==
  /\ chat.attachment
  /\ chat' = [chat EXCEPT !.attachment = FALSE]
  /\ UNCHANGED <<sessionVars, codec, pcm, app, notes, studio, player>>

\* The mode switches: lines 90 and 102
ToggleMode ==
  /\ \/ chat' = [chat EXCEPT !.isThinkingMode = ~@]
     \/ chat' = [chat EXCEPT !.useMaps = ~@]
  /\ UNCHANGED <<sessionVars, codec, pcm, app, notes, studio, player>>

\* The first await of a send: lines 52-69
FirstAwait ==
  IF chat.attachment THEN "reading"
  ELSE IF chat.isThinkingMode THEN "generating"
  ELSE IF chat.useMaps THEN "locating"
  ELSE "generating"

\* lines 35-46 and the branch of lines 52-69 up to its first await; a call
\* that fails the test of line 36 returns at once
HandleSend ==
  /\ Len(chat.messages) + 2 <= MaxMessages
  /\ chat' = IF (~chat.input /\ ~chat.attachment) \/ chat.isLoading THEN chat
             ELSE [chat EXCEPT !.messages = Append(@, "user"), !.input = FALSE,
                               !.isLoading = TRUE, !.request = FirstAwait]
  /\ UNCHANGED <<sessionVars, codec, pcm, app, notes, studio, player>>

\* lines 54-59: the reader fires load, base64Promise resolves
ReaderLoaded ==
  /\ chat.request = "reading"
  /\ chat' = [chat EXCEPT !.request = "generating"]
  /\ UNCHANGED <<sessionVars, codec, pcm, app, notes, studio, player>>

\* lines 54-59: the reader fires error; only onload is set, so base64Promise
\* is never settled and handleSend stays suspended at line 58
ReaderError ==
  /\ chat.request = "reading"
  /\ chat' = [chat EXCEPT !.request = "unsettled"]
  /\ UNCHANGED <<sessionVars, codec, pcm, app, notes, studio, player>>

\* line 66: the position arrives
PositionFound ==
  /\ chat.request = "locating"
  /\ chat' = [chat EXCEPT !.request = "generating"]
  /\ UNCHANGED <<sessionVars, codec, pcm, app, notes, studio, player>>

\* lines 72-76 and 80-83
Replied == [chat EXCEPT !.messages = Append(@, "reply"), !.isLoading = FALSE,
                        !.attachment = FALSE, !.request = "none"]

\* lines 77-83
Failed == [chat EXCEPT !.messages = Append(@, "error"), !.isLoading = FALSE,
                       !.attachment = FALSE, !.request = "none"]

\* line 66: the position request is refused, the promise rejects
PositionDenied ==
  /\ chat.request = "locating"
  /\ chat' = Failed
  /\ UNCHANGED <<sessionVars, codec, pcm, app, notes, studio, player>>

\* lines 59, 62 or 69: the generation request resolves
GenerationResolved ==
  /\ chat.request = "generating"
  /\ chat' = Replied
  /\ UNCHANGED <<sessionVars, codec, pcm, app, notes, studio, player>>

\* lines 59, 62 or 69: the generation request rejects
GenerationRejected ==
  /\ chat.request = "generating"
  /\ chat' = Failed
  /\ UNCHANGED <<sessionVars, codec, pcm, app, notes, studio, player>>

NextChat ==
  \/ \E hasText \in BOOLEAN : TypeInput(hasText)
  \/ HandleFileUpload
  \/ RemoveAttachment
  \/ ToggleMode
  \/ HandleSend
  \/ ReaderLoaded
  \/ ReaderError
  \/ PositionFound
  \/ PositionDenied
  \/ GenerationResolved
  \/ GenerationRejected

\* The reader fires load or error, the position request and the generation
\* request settle.
SpecChat ==
  /\ Init /\ [][NextChat]_vars
  /\ WF_vars(ReaderLoaded \/ ReaderError)
  /\ WF_vars(PositionFound \/ PositionDenied)
  /\ WF_vars(GenerationResolved \/ GenerationRejected)

\* User and model messages alternate, and a send is running exactly while
\* isLoading is true and the last message is the user's
OneReplyPerSend ==
  /\ \A i \in DOMAIN chat.messages : (chat.messages[i] = "user") <=> (i % 2 = 1)
  /\ chat.isLoading <=> (chat.request # "none")
  /\ chat.isLoading <=> (Len(chat.messages) % 2 = 1)

\* C29: at most one send is running at a time, every accepted send appends
\* one user message and is followed eventually by one model message, after
\* which isLoading is false; a send attempted while isLoading is true
\* appends nothing.
C29_SendGetsOneReply ==
  /\ []OneReplyPerSend
  /\ [][chat.isLoading => (chat'.messages = chat.messages \/ ~chat'.isLoading)]_vars
  /\ (chat.isLoading ~> ~chat.isLoading)

====
